---- MODULE Spec2Model ----
(***************************************************************************)
(* EasyCA (easyca.py): a file-system backed certificate authority tool.    *)
(*                                                                         *)
(* The state is the store under --basedir (ca/, csr/, certs/, keys/) and   *)
(* the one process that may be running against it: a single-shot CLI      *)
(* command, a library call of is_sub_ca, or the interactive wizard with   *)
(* its position (pc) and its local variables (details, csr, root_ca).     *)
(* signer, typed and last observe what was picked, typed and returned:    *)
(* Spec records them, StoreSpec leaves them alone.                        *)
(*                                                                         *)
(* A common name is a sequence of labels: <<1>> is "1", <<1, 1>> is "1.1". *)
(* A file name in csr/ is the common name followed by its extension label.*)
(* Keys are numbered in the order the toolkit generates them; 0 is "no    *)
(* file".  A certificate records its subject, its issuer and the key it   *)
(* certifies; the fingerprint of a subject or issuer is the name itself.  *)
(*                                                                         *)
(* The toolkit (openssl, through run_command) either succeeds or fails;   *)
(* a failing call writes no file and ends the process with exit(1).       *)
(***************************************************************************)
EXTENDS Integers, Sequences, FiniteSets, TLC

\* ---------------------------------------------------------------- bounds
\* Single-label common names are <<1>> .. <<MaxLabel>>; <<1, 1>> is the
\* dotted common name "1.1".
MaxLabel == 1
\* The toolkit generates at most MaxKeys key pairs in one behaviour.
MaxKeys == 3

\* The extension labels of the files in csr/: ".csr" and ".key".
CsrExt == 0
KeyExt == -1

CommonNames ==
    {<<l>> : l \in 1..MaxLabel} \cup {<<1, 1>>}

\* What the user may type at an index prompt (before int(...) - 1).
IndexInputs == (0 - Cardinality(CommonNames))..(Cardinality(CommonNames) + 1)

NoName == <<>>
NoKey == 0
NoCert == [subject |-> NoName, issuer |-> NoName, key |-> NoKey]
NoReq == [subject |-> NoName, key |-> NoKey]
NoInput == <<>>

VARIABLES
    dirs,      \* which of ca/, csr/, certs/, keys/ exist under basedir
    caDirs,    \* the directories under ca/
    caKey,     \* ca/<name>/ca.key
    caCrt,     \* ca/<name>/ca.crt
    csrKey,    \* csr/<name>.key
    csrReq,    \* csr/<name>.csr
    certs,     \* certs/<name>.crt
    keys,      \* keys/<name>.key
    nextKey,   \* the number of the next key pair the toolkit generates
    pc,        \* "idle" (no process) or the wizard's position
    details,   \* wizard local: details["common_name"], NoName while unbound
    csr,       \* wizard local: the request file name being signed
    root_ca,   \* wizard local: root_ca
    signer,    \* observed: cas[ca_index], the CA last picked to sign with
    typed,     \* observed: the index last typed at an index prompt, <<k>>
    last       \* observed: the last operation started and how it ended

storeVars == <<dirs, caDirs, caKey, caCrt, csrKey, csrReq, certs, keys, nextKey>>
procVars == <<pc, details, csr, root_ca>>
seenVars == <<signer, typed, last>>
vars == <<dirs, caDirs, caKey, caCrt, csrKey, csrReq, certs, keys, nextKey,
          pc, details, csr, root_ca, signer, typed, last>>

\* ------------------------------------------------------- pure functions

\* os.listdir returns the entries in arbitrary order: every ordering of S.
Orders(S) ==
    {s \in [1..Cardinality(S) -> S] : \A i, j \in DOMAIN s : i # j => s[i] # s[j]}

\* issuer_hash == subject_hash, line 29.
IsSelfSigned(cert) == cert # NoCert /\ cert.issuer = cert.subject

RECURSIVE FirstRoot(_, _)
\* FirstRoot without the tests of lines 26 and 29: the first CA listed.
FirstListed(cas, i) ==
    IF i > Len(cas) THEN NoName ELSE cas[i]

\* The loop of lines 24-30 from the i-th entry of the listing on.
FirstRoot(cas, i) ==
    IF i > Len(cas) THEN NoName
    ELSE IF caCrt[cas[i]] # NoCert /\ IsSelfSigned(caCrt[cas[i]]) THEN cas[i]
    ELSE FirstRoot(cas, i + 1)

\* GetRootCa whose comparison of line 29 never holds: None, whatever
\* the listing.
GetRootCaFindsNone(cas) == NoName

\* get_root_ca over the listing `cas` of ca/: the first CA whose ca.crt
\* exists and is self-signed, NoName for None.
GetRootCa(cas) == FirstRoot(cas, 1)

\* f"{common_name}.csr"
CsrFile(name) == Append(name, CsrExt)

\* csr.split(".")[0], line 151: the text before the first dot.
SplitFirst(file) == <<Head(file)>>

\* str.replace(".csr", x): every label "csr" after a dot becomes x, or is
\* dropped when x is the empty string (drop = TRUE).
RECURSIVE ReplaceCsr(_, _, _)
ReplaceCsr(file, x, drop) ==
    IF file = <<>> THEN <<>>
    ELSE IF Head(file) = CsrExt
         THEN (IF drop THEN <<>> ELSE <<x>>) \o ReplaceCsr(Tail(file), x, drop)
         ELSE <<Head(file)>> \o ReplaceCsr(Tail(file), x, drop)

\* csr.replace(".csr", ""), line 177.
StripCsr(file) == ReplaceCsr(file, CsrExt, TRUE)

\* csr.replace(".csr", ".key"), line 180: the key file's name.
KeyFileOf(file) == ReplaceCsr(file, KeyExt, FALSE)

\* The common name whose key file in csr/ (or keys/) is `file`.
KeyFileName(file) == SubSeq(file, 1, Len(file) - 1)

\* The files of csr/ ending in ".csr", line 160.
PendingCsrs == {CsrFile(n) : n \in {m \in CommonNames : csrReq[m] # NoReq}}

HasReq(name) == name \in CommonNames /\ csrReq[name] # NoReq

\* What openssl x509 -req needs to succeed: the request, the CA's
\* certificate and key, and the key being the certificate's own.
SignInputsOk(ca_name, common_name) ==
    /\ HasReq(common_name)
    /\ ca_name \in caDirs
    /\ caCrt[ca_name] # NoCert
    /\ caKey[ca_name] # NoKey
    /\ caCrt[ca_name].key = caKey[ca_name]

\* The certificate openssl x509 -req writes.
Issued(ca_name, common_name) ==
    [subject |-> csrReq[common_name].subject,
     issuer |-> caCrt[ca_name].subject,
     key |-> csrReq[common_name].key]

\* cas[ca_index] in Python: indices -len .. len-1 select, others raise
\* IndexError.
InRange(list, index) == index >= 0 - Len(list) /\ index < Len(list)
PyIndex(list, index) ==
    IF index >= 0 THEN list[index + 1] ELSE list[Len(list) + index + 1]

\* An operation, the name it was given, what the toolkit answered and how
\* the operation ended.
Result(op, name, input, status) ==
    [op |-> op, name |-> name, input |-> input, status |-> status]

\* ------------------------------------------------------------------ Init
Init ==
    /\ dirs = {}
    /\ caDirs = {}
    /\ caKey = [n \in CommonNames |-> NoKey]
    /\ caCrt = [n \in CommonNames |-> NoCert]
    /\ csrKey = [n \in CommonNames |-> NoKey]
    /\ csrReq = [n \in CommonNames |-> NoReq]
    /\ certs = [n \in CommonNames |-> NoCert]
    /\ keys = [n \in CommonNames |-> NoKey]
    /\ nextKey = 1
    /\ pc = "idle"
    /\ details = NoName
    /\ csr = NoName
    /\ root_ca = NoName
    /\ signer = NoName
    /\ typed = NoInput
    /\ last = Result("none", NoName, "", "none")

\* -------------------------------------------------- lifecycle operations

\* create_ca, lines 52-58: makedirs, then openssl req -x509 writes ca.key
\* and ca.crt (ok), or fails and run_command exits (not ok).
create_ca(common_name, ok) ==
    /\ dirs' = dirs \cup {"ca"}
    /\ caDirs' = caDirs \cup {common_name}
    /\ IF ok
       THEN /\ caKey' = [caKey EXCEPT ![common_name] = nextKey]
            /\ caCrt' = [caCrt EXCEPT ![common_name] =
                            [subject |-> common_name, issuer |-> common_name,
                             key |-> nextKey]]
            /\ nextKey' = nextKey + 1
       ELSE UNCHANGED <<caKey, caCrt, nextKey>>
    /\ UNCHANGED <<csrKey, csrReq, certs, keys>>

\* create_csr with args given, lines 60-69: makedirs csr/, then openssl
\* req -new writes the key and the request.
create_csr(common_name, ok) ==
    /\ dirs' = dirs \cup {"csr"}
    /\ IF ok
       THEN /\ csrKey' = [csrKey EXCEPT ![common_name] = nextKey]
            /\ csrReq' = [csrReq EXCEPT ![common_name] =
                            [subject |-> common_name, key |-> nextKey]]
            /\ nextKey' = nextKey + 1
       ELSE UNCHANGED <<csrKey, csrReq, nextKey>>
    /\ UNCHANGED <<caDirs, caKey, caCrt, certs, keys>>

\* sign_csr given the request's name for the CA as well, as main gives
\* it in line 107.
sign_csr_as_main(ca_name, common_name, ok) ==
    /\ dirs' = dirs \cup {"certs"}
    /\ IF ok
       THEN certs' = [certs EXCEPT ![common_name] = Issued(common_name, common_name)]
       ELSE UNCHANGED certs
    /\ UNCHANGED <<caDirs, caKey, caCrt, csrKey, csrReq, keys, nextKey>>

\* sign_csr with args given, lines 71-76: makedirs certs/, then openssl
\* x509 -req writes certs/<common_name>.crt; `ok` says the call succeeds.
sign_csr(ca_name, common_name, ok) ==
    /\ dirs' = dirs \cup {"certs"}
    /\ IF ok
       THEN certs' = [certs EXCEPT ![common_name] = Issued(ca_name, common_name)]
       ELSE UNCHANGED certs
    /\ UNCHANGED <<caDirs, caKey, caCrt, csrKey, csrReq, keys, nextKey>>

\* Ends without the exit of line 13: the wizard's loop goes on.
GoesOn ==
    /\ pc' = "top"
    /\ UNCHANGED <<details, csr, root_ca>>

\* A process that ends: nothing of the wizard's locals survives it.
Ends ==
    /\ pc' = "idle"
    /\ details' = NoName
    /\ csr' = NoName
    /\ root_ca' = NoName

\* What an operation lets an observer see: the CA picked, the index typed
\* and the result.  Not seen: the observation is left as it is.
Seen(seen, picked, index, result) ==
    IF seen
    THEN signer' = picked /\ typed' = index /\ last' = result
    ELSE UNCHANGED seenVars

ToolkitAnswer(ok) == IF ok THEN "ok" ELSE "fail"
ExitStatus(ok) == IF ok THEN "exit0" ELSE "exit1"
Running == Result("wizard", NoName, "", "running")

\* ------------------------------------------------- single-shot commands

\* main, lines 102-103: create-ca with its required arguments.
CliCreateCa(common_name, ok, seen) ==
    /\ pc = "idle"
    /\ ok => nextKey <= MaxKeys
    /\ create_ca(common_name, ok)
    /\ UNCHANGED procVars
    /\ Seen(seen, NoName, NoInput,
            Result("create-ca", common_name, ToolkitAnswer(ok), ExitStatus(ok)))

\* main, lines 104-105: create_csr is called without args, so line 63
\* reads None.basedir and raises before any directory or file is made.
CliCreateCsr(common_name) ==
    /\ pc = "idle"
    /\ UNCHANGED storeVars
    /\ UNCHANGED procVars
    /\ Seen(TRUE, NoName, NoInput,
            Result("create-csr", common_name, "", "AttributeError"))

\* main, lines 106-107: sign_csr is called without args, so line 74
\* reads None.basedir and raises.
CliSignCsr(common_name) ==
    /\ pc = "idle"
    /\ UNCHANGED storeVars
    /\ UNCHANGED procVars
    /\ Seen(TRUE, NoName, NoInput,
            Result("sign-csr", common_name, "", "AttributeError"))

\* main, lines 108-109: show_cert(common_name) lacks its second
\* positional argument and raises TypeError.
CliShowCert(common_name) ==
    /\ pc = "idle"
    /\ UNCHANGED storeVars
    /\ UNCHANGED procVars
    /\ Seen(TRUE, NoName, NoInput,
            Result("show-cert", common_name, "", "TypeError"))

\* The options that give the subject, lines 194-197, and the commands
\* whose subject they give.
SubjectOptions == {"country", "state", "locality", "organization"}
SubjectCommands == {"create-ca", "create-csr"}
Commands == {"create-ca", "create-csr", "sign-csr", "show-cert"}

\* A command line of `command` that leaves out one argument.
Without(command, missing) == command \o " without " \o missing

\* __main__, lines 202-214, and main, on a command line that leaves out
\* one argument.  Only a missing common_name is a usage error (lines
\* 209-212).  An option left out is None: create_ca formats it into the
\* subject as "None", so the directory is made and the toolkit is run,
\* and fails only on C=None (a country has two letters); create_csr
\* raises on args = None as it does with every option given.
CliIncomplete(command, common_name, missing, ok) ==
    /\ pc = "idle"
    /\ missing \in SubjectOptions => command \in SubjectCommands
    /\ UNCHANGED procVars
    /\ IF missing = "common_name"
       THEN /\ UNCHANGED storeVars
            /\ Seen(TRUE, NoName, NoInput,
                    Result(Without(command, missing), NoName, "", "usage"))
       ELSE IF command = "create-ca"
       THEN /\ (ok /\ missing # "country") => nextKey <= MaxKeys
            /\ create_ca(common_name, ok /\ missing # "country")
            /\ Seen(TRUE, NoName, NoInput,
                    Result(Without(command, missing), common_name,
                           ToolkitAnswer(ok /\ missing # "country"),
                           ExitStatus(ok /\ missing # "country")))
       ELSE /\ UNCHANGED storeVars
            /\ Seen(TRUE, NoName, NoInput,
                    Result(Without(command, missing), common_name, "",
                           "AttributeError"))

\* is_sub_ca, lines 33-50.  basic_constraints is what the toolkit call of
\* line 39 gives: "fail" (non-zero exit), "" or "CA:TRUE".  Line 44 passes
\* args.basedir, a string, to get_root_ca, whose get_cas reads
\* args.basedir of it and raises AttributeError; lines 45-50 never run.
is_sub_ca(common_name, basic_constraints) ==
    IF ~(common_name \in caDirs /\ caCrt[common_name] # NoCert)
    THEN "FileNotFoundError"
    ELSE IF basic_constraints = "fail" THEN "exit1"
    ELSE IF basic_constraints = "" THEN "ValueError"
    ELSE "AttributeError"

\* A caller (test.py, lines 74-84) calls is_sub_ca on the store.
IsSubCaCall(common_name, basic_constraints) ==
    /\ pc = "idle"
    /\ UNCHANGED storeVars
    /\ UNCHANGED procVars
    /\ Seen(TRUE, NoName, NoInput,
            Result("is_sub_ca", common_name, basic_constraints,
                   is_sub_ca(common_name, basic_constraints)))

\* ------------------------------------------- functions called directly

\* A caller (test.py, line 38) calls create_csr with args.
CreateCsrCall(common_name, ok) ==
    /\ pc = "idle"
    /\ ok => nextKey <= MaxKeys
    /\ create_csr(common_name, ok)
    /\ UNCHANGED procVars
    /\ Seen(TRUE, NoName, NoInput,
            Result("create_csr", common_name, ToolkitAnswer(ok), ExitStatus(ok)))

\* A caller (test.py, line 57) calls sign_csr with args.  The toolkit
\* cannot succeed without the request, the CA's certificate and its key.
SignCsrCall(ca_name, common_name, ok) ==
    /\ pc = "idle"
    /\ sign_csr(ca_name, common_name, ok /\ SignInputsOk(ca_name, common_name))
    /\ UNCHANGED procVars
    /\ Seen(TRUE, ca_name, NoInput,
            Result("sign_csr", common_name, ToolkitAnswer(ok),
                   ExitStatus(ok /\ SignInputsOk(ca_name, common_name))))

\* show_cert without the test of lines 81-82: the toolkit is run on the
\* path whatever is there, and fails on a file that is not there.
show_cert_unchecked(common_name, rendering) ==
    IF certs[common_name] = NoCert \/ rendering = "fail"
    THEN Result("show_cert", common_name, "fail", "exit1")
    ELSE Result("show_cert", common_name, rendering, rendering)

\* show_cert, lines 78-83.  rendering is what the toolkit call of line 83
\* gives when it is made: "fail" (non-zero exit) or the text.  The result
\* holds what the toolkit answered ("" when it was not called) and how
\* the function ended: the exception, the exit, or the text printed.
show_cert(common_name, rendering) ==
    IF certs[common_name] = NoCert
    THEN Result("show_cert", common_name, "", "FileNotFoundError")
    ELSE IF rendering = "fail"
    THEN Result("show_cert", common_name, "fail", "exit1")
    ELSE Result("show_cert", common_name, rendering, rendering)

\* A caller (test.py, line 71) calls show_cert with args.
ShowCertCall(common_name, rendering) ==
    /\ pc = "idle"
    /\ UNCHANGED storeVars
    /\ UNCHANGED procVars
    /\ Seen(TRUE, NoName, NoInput, show_cert(common_name, rendering))

\* ------------------------------------------------------------ the wizard

\* __main__, lines 204-207: the wizard starts; its locals are unbound.
StartWizard(seen) ==
    /\ pc = "idle"
    /\ pc' = "top"
    /\ UNCHANGED storeVars
    /\ UNCHANGED <<details, csr, root_ca>>
    /\ Seen(seen, NoName, NoInput, Running)

\* AfterRoot without the test of line 122: the menu whatever was found.
AfterRootUnchecked(root) == "menu"

\* Where the wizard goes after get_root_ca, line 122.
AfterRoot(root) == IF root = NoName THEN "ask_ca" ELSE "menu"

\* Top of the loop, lines 120-122: get_root_ca lists ca/ (creating it)
\* in some order and returns the first self-signed CA.
WizardTop(cas, seen) ==
    /\ pc = "top"
    /\ dirs' = dirs \cup {"ca"}
    /\ root_ca' = GetRootCa(cas)
    /\ pc' = AfterRoot(GetRootCa(cas))
    /\ UNCHANGED <<caDirs, caKey, caCrt, csrKey, csrReq, certs, keys, nextKey>>
    /\ UNCHANGED <<details, csr>>
    /\ Seen(seen, NoName, NoInput, last)

\* Lines 27-28 inside get_root_ca: the toolkit fails on a certificate and
\* run_command exits.
WizardTopToolkitFails(seen) ==
    /\ pc = "top"
    /\ \E n \in caDirs : caCrt[n] # NoCert
    /\ dirs' = dirs \cup {"ca"}
    /\ UNCHANGED <<caDirs, caKey, caCrt, csrKey, csrReq, certs, keys, nextKey>>
    /\ Ends
    /\ Seen(seen, NoName, NoInput, Result("wizard", NoName, "fail", "exit1"))

\* Lines 123-126: no root CA was found, so the wizard asks for the
\* details and creates a CA before the menu.
WizardCreateCa(common_name, ok, seen) ==
    /\ pc = "ask_ca"
    /\ ok => nextKey <= MaxKeys
    /\ create_ca(common_name, ok)
    /\ IF ok
       THEN /\ pc' = "menu"
            /\ details' = common_name
            /\ root_ca' = common_name
            /\ UNCHANGED csr
       ELSE Ends
    /\ Seen(seen, NoName, NoInput,
            IF ok THEN last ELSE Result("wizard", common_name, "fail", "exit1"))

\* int(input(...)) on text that is no number raises ValueError: the
\* validity period (lines 94, 124, 141) or an index (lines 150, 168, 175).
NumberPrompts == {"ask_ca", "sub_csr", "sub_sign", "sign_pick", "sign_ca"}
WizardBadNumber(seen) ==
    /\ pc \in NumberPrompts
    /\ UNCHANGED storeVars
    /\ Ends
    /\ Seen(seen, NoName, NoInput, Result("wizard", NoName, "", "ValueError"))

\* Lines 133-141 and 154-155: action "1", then sub-CA ("1") or not.
MenuCreateCsr(sub, seen) ==
    /\ pc = "menu"
    /\ pc' = IF sub THEN "sub_csr" ELSE "leaf_csr"
    /\ UNCHANGED storeVars
    /\ UNCHANGED <<details, csr, root_ca>>
    /\ Seen(seen, NoName, NoInput, last)

\* Lines 157-163: action "2" lists the pending requests; none: continue.
MenuSignCsr(seen) ==
    /\ pc = "menu"
    /\ dirs' = dirs \cup {"csr"}
    /\ pc' = IF PendingCsrs = {} THEN "top" ELSE "sign_pick"
    /\ UNCHANGED <<caDirs, caKey, caCrt, csrKey, csrReq, certs, keys, nextKey>>
    /\ UNCHANGED <<details, csr, root_ca>>
    /\ Seen(seen, NoName, NoInput, last)

\* Lines 182-183: action "3" leaves the loop.
MenuExit(seen) ==
    /\ pc = "menu"
    /\ UNCHANGED storeVars
    /\ Ends
    /\ Seen(seen, NoName, NoInput, Result("wizard", NoName, "", "exit0"))

\* Lines 184-185: any other text.
MenuInvalid(seen) ==
    /\ pc = "menu"
    /\ pc' = "top"
    /\ UNCHANGED storeVars
    /\ UNCHANGED <<details, csr, root_ca>>
    /\ Seen(seen, NoName, NoInput, last)

\* Lines 155-156: the CSR of a leaf host.
LeafCreateCsr(common_name, ok, seen) ==
    /\ pc = "leaf_csr"
    /\ ok => nextKey <= MaxKeys
    /\ create_csr(common_name, ok)
    /\ IF ok
       THEN /\ pc' = "top"
            /\ details' = common_name
            /\ UNCHANGED <<csr, root_ca>>
       ELSE Ends
    /\ Seen(seen, NoName, NoInput,
            IF ok THEN last ELSE Result("wizard", common_name, "fail", "exit1"))

\* ------------------------------------------- the wizard: sub-CA promotion

\* Lines 141-142: the details and the CSR of the sub-CA.
SubCreateCsr(common_name, ok, seen) ==
    /\ pc = "sub_csr"
    /\ ok => nextKey <= MaxKeys
    /\ create_csr(common_name, ok)
    /\ IF ok
       THEN /\ pc' = "sub_mvkey"
            /\ details' = common_name
            /\ UNCHANGED <<csr, root_ca>>
       ELSE Ends
    /\ Seen(seen, NoName, NoInput,
            IF ok THEN last ELSE Result("wizard", common_name, "fail", "exit1"))

\* Lines 143-145: ca/<name>/ is made and the key renamed into it (os.rename
\* replaces a ca.key that is there); csr is named.
SubMoveKey(seen) ==
    /\ pc = "sub_mvkey"
    /\ dirs' = dirs \cup {"ca"}
    /\ caDirs' = caDirs \cup {details}
    /\ caKey' = [caKey EXCEPT ![details] = csrKey[details]]
    /\ csrKey' = [csrKey EXCEPT ![details] = NoKey]
    /\ csr' = CsrFile(details)
    /\ pc' = "sub_sign"
    /\ UNCHANGED <<caCrt, csrReq, certs, keys, nextKey>>
    /\ UNCHANGED <<details, root_ca>>
    /\ Seen(seen, NoName, NoInput, last)

\* How reading the index k and signing common_name with cas[k - 1] ends:
\* "IndexError", "exit1" (run_command, line 13) or "ok".
SignOutcome(cas, k, ok, common_name) ==
    IF ~InRange(cas, k - 1) THEN "IndexError"
    ELSE IF ok /\ SignInputsOk(PyIndex(cas, k - 1), common_name) THEN "ok"
    ELSE "exit1"

\* Lines 146-151: the CAs are listed, an index is read, and the request
\* named csr.split(".")[0] is signed with cas[ca_index].
SubSign(cas, k, ok, seen) ==
    /\ pc = "sub_sign"
    /\ LET common_name == SplitFirst(csr)
           out == SignOutcome(cas, k, ok, common_name)
       IN  IF out = "IndexError"
           THEN /\ UNCHANGED storeVars
                /\ Ends
                /\ Seen(seen, NoName, <<k>>,
                        Result("wizard", details, "", "IndexError"))
           ELSE /\ sign_csr(PyIndex(cas, k - 1), common_name, out = "ok")
                /\ IF out = "ok"
                   THEN pc' = "sub_mvcrt" /\ UNCHANGED <<details, csr, root_ca>>
                   ELSE Ends
                /\ Seen(seen, PyIndex(cas, k - 1), <<k>>,
                        IF out = "ok" THEN last
                        ELSE Result("wizard", details, ToolkitAnswer(ok), "exit1"))

\* Line 152: the certificate is renamed into the CA directory.
SubMoveCert(seen) ==
    /\ pc = "sub_mvcrt"
    /\ IF certs[details] = NoCert
       THEN /\ UNCHANGED storeVars
            /\ Seen(seen, NoName, NoInput,
                    Result("wizard", details, "", "FileNotFoundError"))
            /\ Ends
       ELSE /\ caCrt' = [caCrt EXCEPT ![details] = certs[details]]
            /\ certs' = [certs EXCEPT ![details] = NoCert]
            /\ pc' = "sub_rmcsr"
            /\ UNCHANGED <<dirs, caDirs, caKey, csrKey, csrReq, keys, nextKey>>
            /\ UNCHANGED <<details, csr, root_ca>>
            /\ Seen(seen, NoName, NoInput, last)

\* Line 153: the request file is removed; the loop starts over.
SubRemoveCsr(seen) ==
    /\ pc = "sub_rmcsr"
    /\ IF csrReq[details] = NoReq
       THEN /\ UNCHANGED storeVars
            /\ Seen(seen, NoName, NoInput,
                    Result("wizard", details, "", "FileNotFoundError"))
            /\ Ends
       ELSE /\ csrReq' = [csrReq EXCEPT ![details] = NoReq]
            /\ pc' = "top"
            /\ csr' = NoName
            /\ UNCHANGED <<dirs, caDirs, caKey, caCrt, csrKey, certs, keys, nextKey>>
            /\ UNCHANGED <<details, root_ca>>
            /\ Seen(seen, NoName, NoInput, last)

\* ------------------------------------------------ the wizard: sign CSR

\* Lines 165-169: the pending requests are listed and one is picked.
SignPick(csrs, k, seen) ==
    /\ pc = "sign_pick"
    /\ UNCHANGED storeVars
    /\ IF ~InRange(csrs, k - 1)
       THEN /\ Ends
            /\ Seen(seen, NoName, <<k>>, Result("wizard", NoName, "", "IndexError"))
       ELSE /\ csr' = PyIndex(csrs, k - 1)
            /\ pc' = "sign_ca"
            /\ UNCHANGED <<details, root_ca>>
            /\ Seen(seen, NoName, <<k>>, last)

\* Lines 171-177: the CAs are listed (get_cas makes ca/), an index is
\* read, and the request named csr.replace(".csr", "") is signed.
SignSign(cas, k, ok, seen) ==
    /\ pc = "sign_ca"
    /\ LET common_name == StripCsr(csr)
           out == SignOutcome(cas, k, ok, common_name)
       IN  IF out = "IndexError"
           THEN /\ dirs' = dirs \cup {"ca"}
                /\ UNCHANGED <<caDirs, caKey, caCrt, csrKey, csrReq, certs, keys,
                               nextKey>>
                /\ Ends
                /\ Seen(seen, NoName, <<k>>,
                        Result("wizard", common_name, "", "IndexError"))
           ELSE /\ sign_csr(PyIndex(cas, k - 1), common_name, out = "ok")
                /\ IF out = "ok"
                   THEN pc' = "sign_mvkey" /\ UNCHANGED <<details, csr, root_ca>>
                   ELSE Ends
                /\ Seen(seen, PyIndex(cas, k - 1), <<k>>,
                        IF out = "ok" THEN last
                        ELSE Result("wizard", common_name, ToolkitAnswer(ok), "exit1"))

\* Lines 178-180: keys/ is made and the key renamed into it.
SignMoveKey(seen) ==
    /\ pc = "sign_mvkey"
    /\ dirs' = dirs \cup {"keys"}
    /\ LET name == KeyFileName(KeyFileOf(csr))
       IN  IF name \in CommonNames /\ csrKey[name] # NoKey
           THEN /\ keys' = [keys EXCEPT ![name] = csrKey[name]]
                /\ csrKey' = [csrKey EXCEPT ![name] = NoKey]
                /\ pc' = "sign_rmcsr"
                /\ UNCHANGED <<details, csr, root_ca>>
                /\ Seen(seen, NoName, NoInput, last)
           ELSE /\ UNCHANGED <<keys, csrKey>>
                /\ Ends
                /\ Seen(seen, NoName, NoInput,
                        Result("wizard", StripCsr(csr), "", "FileNotFoundError"))
    /\ UNCHANGED <<caDirs, caKey, caCrt, csrReq, certs, nextKey>>

\* How line 181 ends: details is whatever the last
\* ask_certificate_details of this session returned, and is unbound when
\* there was none.
RemoveOutcome ==
    IF details = NoName THEN "UnboundLocalError"
    ELSE IF csrReq[details] = NoReq THEN "FileNotFoundError"
    ELSE "ok"

\* Line 181: the request file named after details["common_name"] is
\* removed; the loop starts over.
SignRemoveCsr(seen) ==
    /\ pc = "sign_rmcsr"
    /\ IF RemoveOutcome # "ok"
       THEN /\ UNCHANGED storeVars
            /\ Seen(seen, NoName, NoInput,
                    Result("wizard", StripCsr(csr), "", RemoveOutcome))
            /\ Ends
       ELSE /\ csrReq' = [csrReq EXCEPT ![details] = NoReq]
            /\ pc' = "top"
            /\ csr' = NoName
            /\ UNCHANGED <<dirs, caDirs, caKey, caCrt, csrKey, certs, keys, nextKey>>
            /\ UNCHANGED <<details, root_ca>>
            /\ Seen(seen, NoName, NoInput, last)

\* ------------------------------------------------------- specification
ToolkitAnswers == {"fail", "", "CA:TRUE"}

\* The wizard's steps.
WizardOps(seen) ==
    \/ StartWizard(seen)
    \/ pc = "top" /\ \E cas \in Orders(caDirs) : WizardTop(cas, seen)
    \/ WizardTopToolkitFails(seen)
    \/ pc = "ask_ca" /\ \E n \in CommonNames, ok \in BOOLEAN :
                           WizardCreateCa(n, ok, seen)
    \/ WizardBadNumber(seen)
    \/ pc = "menu" /\ \E sub \in BOOLEAN : MenuCreateCsr(sub, seen)
    \/ MenuSignCsr(seen)
    \/ MenuExit(seen)
    \/ MenuInvalid(seen)
    \/ pc = "leaf_csr" /\ \E n \in CommonNames, ok \in BOOLEAN :
                             LeafCreateCsr(n, ok, seen)
    \/ pc = "sub_csr" /\ \E n \in CommonNames, ok \in BOOLEAN :
                            SubCreateCsr(n, ok, seen)
    \/ SubMoveKey(seen)
    \/ pc = "sub_sign" /\ \E cas \in Orders(caDirs), k \in IndexInputs, ok \in BOOLEAN :
                             SubSign(cas, k, ok, seen)
    \/ SubMoveCert(seen)
    \/ SubRemoveCsr(seen)
    \/ pc = "sign_pick" /\ \E csrs \in Orders(PendingCsrs), k \in IndexInputs :
                              SignPick(csrs, k, seen)
    \/ pc = "sign_ca" /\ \E cas \in Orders(caDirs), k \in IndexInputs, ok \in BOOLEAN :
                            SignSign(cas, k, ok, seen)
    \/ SignMoveKey(seen)
    \/ SignRemoveCsr(seen)

\* The other single-shot commands and the library call.
CallNext ==
    \/ pc = "idle" /\ \E n \in CommonNames : CliCreateCsr(n)
    \/ pc = "idle" /\ \E n \in CommonNames : CliSignCsr(n)
    \/ pc = "idle" /\ \E n \in CommonNames : CliShowCert(n)
    \/ pc = "idle" /\ \E n \in CommonNames, bc \in ToolkitAnswers : IsSubCaCall(n, bc)

\* The operations that change the store: create-ca and the wizard.
StoreOps(seen) ==
    \/ pc = "idle" /\ \E n \in CommonNames, ok \in BOOLEAN : CliCreateCa(n, ok, seen)
    \/ WizardOps(seen)

Next == StoreOps(TRUE) \/ CallNext
StoreNext == StoreOps(FALSE)
WizardNext == WizardOps(TRUE)

\* Every operation of the program, observed.
Spec == Init /\ [][Next]_vars

\* The operations that change the store, unobserved.
StoreSpec == Init /\ [][StoreNext]_vars

\* Runs that use only the wizard, observed.
WizardSpec == Init /\ [][WizardNext]_vars

\* Runs that use only the wizard, unobserved.
WizardStoreNext == WizardOps(FALSE)
WizardStoreSpec == Init /\ [][WizardStoreNext]_vars

\* The text openssl x509 -text gives is never empty.
Renderings == ToolkitAnswers \ {""}

\* create_ca as main calls it, and the functions that take args called
\* directly with args, as test.py calls them.
LibNext ==
    \/ pc = "idle" /\ \E n \in CommonNames, ok \in BOOLEAN : CliCreateCa(n, ok, TRUE)
    \/ pc = "idle" /\ \E n \in CommonNames, ok \in BOOLEAN : CreateCsrCall(n, ok)
    \/ pc = "idle" /\ \E c, n \in CommonNames, ok \in BOOLEAN : SignCsrCall(c, n, ok)
    \/ pc = "idle" /\ \E n \in CommonNames, r \in Renderings : ShowCertCall(n, r)

LibSpec == Init /\ [][LibNext]_vars

\* The single-shot commands, on complete and incomplete command lines.
CliNext ==
    \/ pc = "idle" /\ \E n \in CommonNames, ok \in BOOLEAN : CliCreateCa(n, ok, TRUE)
    \/ pc = "idle" /\ \E n \in CommonNames : CliCreateCsr(n)
    \/ pc = "idle" /\ \E n \in CommonNames : CliSignCsr(n)
    \/ pc = "idle" /\ \E n \in CommonNames : CliShowCert(n)
    \/ pc = "idle" /\ \E c \in Commands, n \in CommonNames,
                          m \in SubjectOptions \cup {"common_name"}, ok \in BOOLEAN :
                          CliIncomplete(c, n, m, ok)

CliSpec == Init /\ [][CliNext]_vars

\* ------------------------------------------------------------ the claims

\* The certificate issued for the pending request of `name` exists, in
\* certs/ or (promoted) in ca/<name>/.
CertIssuedFor(name) ==
    \/ certs[name] # NoCert /\ certs[name].key = csrReq[name].key
    \/ caCrt[name] # NoCert /\ caCrt[name].key = csrReq[name].key

\* A CA that can sign: its directory holds a certificate and its key.
Usable(ca_name) ==
    /\ ca_name \in caDirs
    /\ caCrt[ca_name] # NoCert
    /\ caKey[ca_name] # NoKey
    /\ caCrt[ca_name].key = caKey[ca_name]

SelfSignedCAs == {n \in caDirs : IsSelfSigned(caCrt[n])}

\* Between two wizard actions, or after the process has ended.
AtRest == pc \in {"idle", "top", "menu"}

\* C1: in every wizard signing flow the order is sign, relocate key,
\* delete request: a key leaves csr/ only once the certificate for its
\* request has been issued, and a request is deleted only once its
\* certificate exists and its key has left csr/.
C1_SignRelocateDelete ==
    [][\A n \in CommonNames :
          /\ (csrKey[n] # NoKey /\ csrKey'[n] = NoKey) => CertIssuedFor(n)
          /\ (csrReq[n] # NoReq /\ csrReq'[n] = NoReq)
                => (CertIssuedFor(n) /\ csrKey[n] = NoKey)]_vars

\* C2: when the wizard's sign-CSR action completes for the selected
\* request X, certs/X.crt exists, the key of X is in keys/ and not in
\* csr/, csr/X.csr is gone, and no other name's files in csr/ changed.
C2_SignCsrConsumesSelected ==
    [][(pc = "sign_rmcsr" /\ pc' = "top") =>
          LET X == StripCsr(csr)
          IN  /\ certs'[X] # NoCert
              /\ keys'[X] # NoKey
              /\ csrKey'[X] = NoKey
              /\ csrReq'[X] = NoReq
              /\ \A n \in CommonNames \ {X} :
                    csrReq'[n] = csrReq[n] /\ csrKey'[n] = csrKey[n]]_vars

\* C3: a sub-CA promotion for X that signs with a selected usable CA other
\* than X, with the toolkit working, goes on to relocate the certificate;
\* and when the promotion is over, csr/X.csr and csr/X.key are gone,
\* ca/X/ holds the key generated with the CSR and the certificate issued
\* for it, and certs/X.crt is gone.
C3_PromotionEndsAsSubCa ==
    [][/\ (/\ pc = "sub_sign"
           /\ typed' # NoInput
           /\ typed'[1] \in 1..Cardinality(caDirs)
           /\ signer' # NoName
           /\ signer' # details
           /\ Usable(signer')
           /\ last'.input # "fail")
          => pc' = "sub_mvcrt"
       /\ (pc = "sub_rmcsr" /\ pc' = "top")
          => /\ csrReq'[details] = NoReq
             /\ csrKey'[details] = NoKey
             /\ caKey'[details] = csrReq[details].key
             /\ caCrt'[details] # NoCert
             /\ caCrt'[details].key = csrReq[details].key
             /\ caCrt'[details].subject = details
             /\ certs'[details] = NoCert]_vars

\* C4: at rest, every CA directory get_cas lists holds both ca.key and
\* ca.crt.
C4_ListedCaHasKeyAndCert ==
    AtRest => \A n \in caDirs : caKey[n] # NoKey /\ caCrt[n] # NoCert

\* C5: at rest, while the wizard runs or after it ended by exit or by a
\* toolkit failure, every pending request csr/X.csr has csr/X.key beside
\* it.
C5_PendingRequestHasKey ==
    (AtRest /\ last.status \in {"running", "exit0", "exit1"})
        => \A n \in CommonNames : csrReq[n] # NoReq => csrKey[n] # NoKey

\* C6: at most one CA under ca/ has a self-signed certificate.
C6_AtMostOneSelfSigned == Cardinality(SelfSignedCAs) <= 1

\* C7: the wizard's menu is presented only while the store holds a
\* self-signed CA: when get_root_ca finds none, create-CA comes first.
C7_MenuOnlyWithRoot ==
    pc = "menu" => \E n \in caDirs : caCrt[n] # NoCert /\ caCrt[n].issuer = caCrt[n].subject

\* C7 witness: the menu right after the wizard was made to create the CA.
C7_MenuAfterForcedCreate ==
    /\ pc = "menu"
    /\ details # NoName
    /\ root_ca = details
    /\ caCrt[details].key = nextKey - 1
    /\ caCrt[details].issuer = details

\* The number of choices listed at the index prompt the wizard is at.
Listed == IF pc = "sign_pick" THEN Cardinality(PendingCsrs) ELSE Cardinality(caDirs)

\* C8: an index outside 1..length typed at an index prompt is a user
\* error: the wizard stays at the prompt, selects nothing and changes
\* nothing in the store.
C8_OutOfRangeIndexReprompts ==
    [][(/\ pc \in {"sub_sign", "sign_pick", "sign_ca"}
        /\ typed' # NoInput
        /\ typed'[1] \notin 1..Listed)
          => (pc' = pc /\ csr' = csr /\ UNCHANGED storeVars)]_vars

\* C9: for a CA whose certificate is present and carries the CA flag,
\* is_sub_ca returns True when the certificate is not self-signed and
\* False when it is.
C9_ClassifiesSubAndRoot ==
    (/\ last.op = "is_sub_ca"
     /\ last.input = "CA:TRUE"
     /\ last.name \in caDirs
     /\ caCrt[last.name] # NoCert)
        => last.status = IF IsSelfSigned(caCrt[last.name]) THEN "False" ELSE "True"

\* C10: each single-shot command, given its required arguments where its
\* preconditions hold, completes with the operation's effect: create-ca
\* leaves the CA's key and certificate, create-csr the request and its
\* key, sign-csr the certificate, show-cert ends normally.
C10_CommandsRunTheOperations ==
    /\ (last.op = "create-ca" /\ last.input = "ok")
          => (caKey[last.name] # NoKey /\ caCrt[last.name] # NoCert)
    /\ last.op = "create-csr"
          => (csrKey[last.name] # NoKey /\ csrReq[last.name] # NoReq)
    /\ (last.op = "sign-csr" /\ HasReq(last.name) /\ \E c \in caDirs : Usable(c))
          => certs[last.name] # NoCert
    /\ (last.op = "show-cert" /\ certs[last.name] # NoCert)
          => last.status = "exit0"

\* C11: get_root_ca returns the self-signed CA whenever the store holds
\* exactly one, however many other CA directories there are and in
\* whatever order ca/ is listed; over an empty or absent ca/ it returns
\* None without raising; either way ca/ exists afterwards.
C11_FindRootFindsTheRoot ==
    [][pc = "top" =>
          /\ (pc' # "idle" /\ Cardinality(SelfSignedCAs) = 1)
                => /\ root_ca' \in SelfSignedCAs
                   /\ pc' = "menu"
                   /\ \A cas \in Orders(caDirs) : GetRootCa(cas) = root_ca'
                   /\ "ca" \in dirs'
          /\ caDirs = {}
                => /\ pc' = "ask_ca"
                   /\ root_ca' = NoName
                   /\ "ca" \in dirs']_vars

\* C11 witness: the menu after get_root_ca found the one self-signed CA
\* in a ca/ that also holds a CA with a certificate issued by another.
C11_RootFoundAmongSubCas ==
    /\ pc = "menu"
    /\ Cardinality(SelfSignedCAs) = 1
    /\ root_ca \in SelfSignedCAs
    /\ \E n \in caDirs : caCrt[n] # NoCert /\ ~IsSelfSigned(caCrt[n])

\* C12: sign_csr called for a name with no pending request in csr/ fails
\* with a not-found error, writes no certificate, and leaves csr/, ca/
\* and keys/ as they were.
C12_MissingRequestIsNotFound ==
    [][(last'.op = "sign_csr" /\ ~HasReq(last'.name))
          => /\ last'.status = "FileNotFoundError"
             /\ certs' = certs
             /\ UNCHANGED <<caDirs, caKey, caCrt, csrKey, csrReq, keys>>]_vars

\* C13: show_cert for a name with no certs/<name>.crt raises
\* FileNotFoundError and the toolkit is not called; when the file is
\* there and the toolkit renders it, the rendering is what is printed.
C13_ShowCertChecksFirst ==
    last.op = "show_cert" =>
        IF certs[last.name] = NoCert
        THEN last.status = "FileNotFoundError" /\ last.input = ""
        ELSE last.input # "fail"
                => (last.input \in Renderings /\ last.status = last.input)

\* C13 witness: show_cert has ended on a name without a certificate in
\* a store where another name has one.
C13_ShownNameHasNoFile ==
    /\ last.op = "show_cert"
    /\ certs[last.name] = NoCert
    /\ last.status = "FileNotFoundError"
    /\ \E n \in CommonNames : certs[n] # NoCert

\* The command lines that leave out a required argument.
IncompleteLines ==
    {Without(c, "common_name") : c \in Commands}
        \cup {Without(c, m) : c \in SubjectCommands, m \in SubjectOptions}

C15_SignedByTheNamedCa ==
    [][(/\ last'.op = "sign_csr"
        /\ last'.input = "ok"
        /\ Usable(signer')
        /\ HasReq(last'.name))
          => /\ last'.status = "exit0"
             /\ certs'[last'.name] # NoCert
             /\ certs'[last'.name].issuer = caCrt[signer'].subject
             /\ certs'[last'.name].subject = csrReq[last'.name].subject
             /\ certs'[last'.name].key = csrReq[last'.name].key]_vars

\* C15 witness: sign_csr has ended well, and the certificate of its
\* request names as issuer the self-signed CA it was given, not itself.
C15_LeafChainsToRoot ==
    /\ last.op = "sign_csr"
    /\ last.status = "exit0"
    /\ signer # last.name
    /\ signer \in caDirs
    /\ IsSelfSigned(caCrt[signer])
    /\ certs[last.name].issuer = caCrt[signer].subject
    /\ certs[last.name].key = csrReq[last.name].key

\* C16: once ca/<name>/ holds both ca.key and ca.crt, no step of the
\* wizard replaces, moves or removes either of them, so a root that
\* get_root_ca finds stays the root.
C16_CaFilesAreNeverReplaced ==
    [][\A n \in caDirs :
          (caKey[n] # NoKey /\ caCrt[n] # NoCert)
              => (caKey'[n] = caKey[n] /\ caCrt'[n] = caCrt[n])]_vars

C18_WizardKeepsOneRoot ==
    /\ pc = "ask_ca" => (root_ca = NoName /\ SelfSignedCAs = {})
    /\ \A a, b \in caDirs :
          (IsSelfSigned(caCrt[a]) /\ IsSelfSigned(caCrt[b])) => a = b

\* C18 witness: the wizard is back at its menu with the root it created
\* and a second CA, whose certificate the root issued.
C18_RootAndSubCaAtMenu ==
    /\ pc = "menu"
    /\ root_ca # NoName
    /\ IsSelfSigned(caCrt[root_ca])
    /\ \E n \in caDirs \ {root_ca} :
          /\ caCrt[n] # NoCert
          /\ caCrt[n].issuer = root_ca
          /\ caKey[n] = caCrt[n].key
====
